---- MODULE Spec2Model ----
(***************************************************************************)
(* school-swap: the multi-buyer sale finalization workflow.                *)
(*                                                                         *)
(* The store is the Postgres schema of supabase/migrations (tables         *)
(* listings, transactions, notifications with their CHECK constraints,     *)
(* foreign keys and row level security policies).  The clients are the     *)
(* React pages MyListings (seller), ListingDetail/BuyModal (buyer) and     *)
(* Admin (moderator).  Every page holds a snapshot of the store that it    *)
(* fetched earlier; every handler is split at its awaits, so that store    *)
(* writes of different pages interleave as they do over the network.       *)
(***************************************************************************)
EXTENDS Integers, FiniteSets, Sequences, TLC

\* ------------------------------------------------------------------ bounds
NumUsers == 3          \* user ids 1..NumUsers (auth.users)
MaxListings == 1       \* listing ids 1..MaxListings (ids are never reused)
MaxTransactions == 2   \* rows ever inserted into transactions
NumPages == 2          \* open MyListings page instances (browser tabs)
NumAdminPages == 2     \* open Admin page instances
NumRaterPages == 1     \* open Transactions page instances
MaxRatings == 2        \* rows ever inserted into ratings
MaxInserts == 2        \* rating inserts of one page in flight at a time
MaxPrice == 1          \* prices 0..MaxPrice

NULL == 0
Users == 1..NumUsers
ListingIds == 1..MaxListings
TransactionIds == 1..MaxTransactions
Pages == 1..NumPages
AdminPages == 1..NumAdminPages
RaterPages == 1..NumRaterPages
DetailPages == Users   \* open ListingDetail page instances, one browser per user
Prices == 0..MaxPrice

\* ------------------------------------------------------------------ schema
\* listings.status CHECK constraint of the schema under src/
ListingStatusCheck == {"pending", "approved", "rejected"}
\* the status domain of the data model in which a listing can be stored as sold
AvailabilityDomain == {"pending", "approved", "rejected", "sold"}

\* outcomes of handleAcceptBuyer (the toast it shows) and their spec names
Success == "success"
AlreadyFinalized == "Failed to update listing status"
OfferInvalid == "Failed to complete transaction"
NotAuthorized == "NotAuthorized"

VARIABLES
  statusCheck,     \* the status values the listings table accepts
  listings,        \* table listings: id -> [seller_id, status]
  nextListing,     \* ids handed out so far (gen_random_uuid never repeats)
  transactions,    \* table transactions: sequence of rows, id = index
  notifications,   \* table notifications: the rows it holds (ids left out)
  mlUser,          \* MyListings page: user of useAuth()
  mlLoading,       \* MyListings page: state `loading`
  mlListings,      \* MyListings page: state `listings` (set of snapshots)
  selectedListing, \* MyListings page: states `showBuyersDialog` and `selectedListing`:
                   \* the listing of the open dialog, NoListing while it is closed
  processingBuyer, \* MyListings page: state `processingBuyer`
  call,            \* MyListings page: the handleAcceptBuyer call of the page
  detail,          \* ListingDetail page: state `listing`
  dtUser,          \* ListingDetail page: user of useAuth(), NULL while not mounted
  showBuyModal,    \* ListingDetail page: state `showBuyModal`
  adminTab,        \* Admin page: state `activeTab`
  adminListings,   \* Admin page: state `listings` (ids shown in the tab)
  ratings,         \* table ratings: sequence of rows, id = index
  trUser,          \* Transactions page: user of useAuth()
  trTab,           \* Transactions page: state `activeTab`
  trLoading,       \* Transactions page: state `loading`
  trFetches,       \* Transactions page: the fetchTransactions calls in flight,
                   \* each with the user and the tab its closure captured
  trTransactions,  \* Transactions page: state `transactions` (set of snapshots)
  selectedTransaction, \* Transactions page: states `showRatingDialog` and
                   \* `selectedTransaction`: the transaction of the open dialog
  trInserts        \* Transactions page: the submitRating calls in flight

store == <<statusCheck, listings, nextListing, transactions, notifications>>
sellerPages == <<mlUser, mlLoading, mlListings, selectedListing, processingBuyer, call>>
buyerPages == <<detail, dtUser, showBuyModal>>
adminPages == <<adminTab, adminListings>>
raterPages == <<ratings, trUser, trTab, trLoading, trFetches, trTransactions,
                selectedTransaction, trInserts>>
vars == <<statusCheck, listings, nextListing, transactions, notifications,
          mlUser, mlLoading, mlListings, selectedListing, processingBuyer, call,
          detail, dtUser, showBuyModal, adminTab, adminListings,
          ratings, trUser, trTab, trLoading, trFetches, trTransactions,
          selectedTransaction, trInserts>>

NoListing == [id |-> NULL, status |-> "none", seller_id |-> NULL, interested_buyers |-> {}]
NoDetail == [id |-> NULL, status |-> "none", seller_id |-> NULL, price |-> 0,
             listing_type |-> "none"]
NoBuyer == [transaction_id |-> NULL, buyer_id |-> NULL]
NoTransaction == [id |-> NULL, buyer_id |-> NULL, seller_id |-> NULL, status |-> "none",
                  rating |-> FALSE]
\* a handleAcceptBuyer call: its position, what its closure captured (user,
\* listing, buyer), its local cancelError, its outcome, and facts about its
\* run: `listed` (when it started the stored listing was approved with two or
\* more pending offers), `rows` (the number of rows its step 1 wrote), `won`
\* (its step 1 wrote a row whose status was approved) and `left` (the other
\* offers of the listing that were pending when it succeeded)
NoCall == [pc |-> "idle", user |-> NULL, listing |-> NoListing, buyer |-> NoBuyer,
           cancelError |-> FALSE, listed |-> FALSE, rows |-> 0, won |-> FALSE,
           left |-> {}, outcome |-> "none"]

\* ------------------------------------------------------------------ store
\* stored status of a listing, "deleted" when the row is gone
StoredStatus(l) == IF l \in DOMAIN listings THEN listings[l].status ELSE "deleted"

\* the pending transactions that reference listing l
PendingOffers(l) ==
  {i \in DOMAIN transactions :
     transactions[i].listing_id = l /\ transactions[i].status = "pending"}

\* listing l is listed with two or more pending offers
Listed(l) == StoredStatus(l) = "approved" /\ Cardinality(PendingOffers(l)) >= 2

\* policy "Users can update their own listings, admins can update any"
ListingUpdatePolicy(uid, admin, row) == admin \/ (uid # NULL /\ uid = row.seller_id)

\* policy "Users can update their own transactions"
TransactionUpdatePolicy(uid, row) == uid # NULL /\ (row.buyer_id = uid \/ row.seller_id = uid)

\* policy "Users can delete their own listings, admins can delete any"
ListingDeletePolicy(uid, admin, row) == admin \/ (uid # NULL /\ uid = row.seller_id)

\* policy "Users can view their own transactions"
TransactionSelectPolicy(uid, row) == uid # NULL /\ (row.buyer_id = uid \/ row.seller_id = uid)

\* policy "Anyone can view approved listings"
ListingSelectPolicy(uid, admin, row) ==
  row.status = "approved" \/ admin \/ (uid # NULL /\ uid = row.seller_id)

\* UPDATE listings SET status = st WHERE id = l [AND seller_id = sellerFilter]:
\* the rows the filter and the policy select are written; a written row must
\* satisfy the status CHECK, else the statement fails and writes nothing.
UpdateListingStatus(l, sellerFilter, uid, admin, st) ==
  LET match == /\ l \in DOMAIN listings
               /\ (sellerFilter = NULL \/ listings[l].seller_id = sellerFilter)
               /\ ListingUpdatePolicy(uid, admin, listings[l])
  IN IF match /\ st \notin statusCheck
       THEN [error |-> TRUE, rows |-> 0, listings |-> listings]
       ELSE IF match
         THEN [error |-> FALSE, rows |-> 1,
               listings |-> [listings EXCEPT ![l].status = st]]
         ELSE [error |-> FALSE, rows |-> 0, listings |-> listings]

\* DELETE FROM listings WHERE id = l, with the foreign keys of the other tables:
\* transactions.listing_id ON DELETE SET NULL, notifications.listing_id ON DELETE CASCADE
DeleteListingRow(l) == [x \in DOMAIN listings \ {l} |-> listings[x]]

\* a delete that also cancels the offers of the listing
SetNullListingCancelling(l) ==
  [i \in DOMAIN transactions |->
     IF transactions[i].listing_id = l
       THEN [transactions[i] EXCEPT !.listing_id = NULL, !.status = "cancelled"]
       ELSE transactions[i]]

SetNullListing(l) ==
  [i \in DOMAIN transactions |->
     IF transactions[i].listing_id = l
       THEN [transactions[i] EXCEPT !.listing_id = NULL]
       ELSE transactions[i]]

CascadeNotifications(l) == {n \in notifications : n.listing_id # l}

\* INSERT INTO notifications, one request per row of `rows`: listing_id
\* REFERENCES listings(id), so a row is refused when the listing `ls` does not
\* hold it; the requests whose index is in `failed` fail on their way.
InsertNotifications(ns, ls, rows, failed) ==
  ns \cup {rows[i] : i \in {j \in DOMAIN rows : j \notin failed /\ rows[j].listing_id \in DOMAIN ls}}

Notification(uid, type, l) == [user_id |-> uid, type |-> type, listing_id |-> l]

\* ------------------------------------------------------------------ Init
InitWith(check) ==
  /\ statusCheck = check
  /\ listings = [x \in {} |-> NoListing]
  /\ nextListing = 1
  /\ transactions = <<>>
  /\ notifications = {}
  /\ mlUser = [p \in Pages |-> NULL]
  /\ mlLoading = [p \in Pages |-> TRUE]
  /\ mlListings = [p \in Pages |-> {}]
  /\ selectedListing = [p \in Pages |-> NoListing]
  /\ processingBuyer = [p \in Pages |-> NULL]
  /\ call = [p \in Pages |-> NoCall]
  /\ detail = [d \in DetailPages |-> NoDetail]
  /\ dtUser = [d \in DetailPages |-> NULL]
  /\ showBuyModal = [d \in DetailPages |-> FALSE]
  /\ adminTab = [a \in AdminPages |-> "pending"]
  /\ adminListings = [a \in AdminPages |-> {}]
  /\ ratings = <<>>
  /\ trUser = [p \in RaterPages |-> NULL]
  /\ trTab = [p \in RaterPages |-> "purchases"]
  /\ trLoading = [p \in RaterPages |-> TRUE]
  /\ trFetches = [p \in RaterPages |-> {}]
  /\ trTransactions = [p \in RaterPages |-> {}]
  /\ selectedTransaction = [p \in RaterPages |-> NoTransaction]
  /\ trInserts = [p \in RaterPages |-> <<>>]

Init == InitWith(ListingStatusCheck)

InitSoldAccepted == InitWith(AvailabilityDomain)

\* ------------------------------------------------------------------ CreateListing
\* the listing types of the CreateListing form
ListingTypes == {"sale", "borrow"}

\* CreateListing.handleSubmit: insert a listing of the signed-in user, status
\* 'pending', with the listing type of the form and its price (listingSchema:
\* 0 <= price), which is 0 for a borrowable listing
CreateListing(u, price, listingType) ==
  /\ nextListing <= MaxListings
  /\ price \in Prices
  /\ listingType \in ListingTypes
  /\ listings' = [x \in DOMAIN listings \cup {nextListing} |->
                    IF x = nextListing
                      THEN [seller_id |-> u, status |-> "pending",
                            price |-> IF listingType = "borrow" THEN 0 ELSE price,
                            listing_type |-> listingType]
                      ELSE listings[x]]
  /\ nextListing' = nextListing + 1
  /\ UNCHANGED <<statusCheck, transactions, notifications>>
  /\ UNCHANGED buyerPages
  /\ UNCHANGED sellerPages
  /\ UNCHANGED adminPages
  /\ UNCHANGED raterPages

\* ------------------------------------------------------------------ Admin
\* Admin.fetchListings: the listings whose status is the active tab
AdminFetch(ls, tab) == {l \in DOMAIN ls : ls[l].status = tab}

\* Admin: a tab is chosen (or the page is loaded); the effect on [activeTab]
\* fetches the listings of that tab
AdminSetActiveTab(a, tab) ==
  /\ tab \in {"pending", "approved", "rejected"}
  /\ adminTab' = [adminTab EXCEPT ![a] = tab]
  /\ adminListings' = [adminListings EXCEPT ![a] = AdminFetch(listings, tab)]
  /\ UNCHANGED store
  /\ UNCHANGED sellerPages
  /\ UNCHANGED buyerPages
  /\ UNCHANGED raterPages

\* Admin.updateStatus(id, status): the approve / reject buttons of a row of the
\* pending tab; the update carries no condition on the stored status
AdminUpdateStatus(a, l, st, failed) ==
  /\ adminTab[a] = "pending"
  /\ l \in adminListings[a]
  /\ st \in {"approved", "rejected"}
  /\ LET r == UpdateListingStatus(l, NULL, NULL, TRUE, st)
     IN /\ ~r.error
        /\ listings' = r.listings
        /\ notifications' =
             IF l \in DOMAIN listings
               THEN InsertNotifications(notifications, r.listings,
                      <<Notification(listings[l].seller_id,
                          IF st = "approved" THEN "listing_approved" ELSE "listing_rejected",
                          l)>>, failed)
               ELSE notifications
        /\ adminListings' = [adminListings EXCEPT ![a] = AdminFetch(r.listings, adminTab[a])]
  /\ UNCHANGED <<statusCheck, nextListing, transactions, adminTab, detail, dtUser, showBuyModal>>
  /\ UNCHANGED sellerPages
  /\ UNCHANGED raterPages

\* Admin.deleteListing(id): the delete button of a row of the approved or
\* rejected tab
AdminDeleteListing(a, l) ==
  /\ adminTab[a] # "pending"
  /\ l \in adminListings[a]
  /\ listings' = DeleteListingRow(l)
  /\ transactions' = IF l \in DOMAIN listings THEN SetNullListing(l) ELSE transactions
  /\ notifications' = IF l \in DOMAIN listings THEN CascadeNotifications(l) ELSE notifications
  /\ adminListings' = [adminListings EXCEPT ![a] = AdminFetch(listings', adminTab[a])]
  /\ UNCHANGED <<statusCheck, nextListing, adminTab, detail, dtUser, showBuyModal>>
  /\ UNCHANGED sellerPages
  /\ UNCHANGED raterPages

\* ------------------------------------------------------------------ ListingDetail / BuyModal
\* the row ListingDetail.fetchListing loads for user u: the listing of the
\* route when it is approved or sold and the select policy shows it
FetchedListing(u, l) ==
  IF /\ l \in DOMAIN listings
     /\ listings[l].status \in {"approved", "sold"}
     /\ ListingSelectPolicy(u, FALSE, listings[l])
    THEN [id |-> l, status |-> listings[l].status, seller_id |-> listings[l].seller_id,
          price |-> listings[l].price, listing_type |-> listings[l].listing_type]
    ELSE NoDetail

\* the page d is opened by user u on the route of listing l (the route is
\* protected: the page is mounted for a signed-in user): fetchListing; without
\* a row the page navigates away and is unmounted
FetchListing(d, u, l) ==
  /\ l \in ListingIds
  /\ u \in Users
  /\ detail' = [detail EXCEPT ![d] = FetchedListing(u, l)]
  /\ dtUser' = [dtUser EXCEPT ![d] = IF FetchedListing(u, l).id # NULL THEN u ELSE NULL]
  /\ showBuyModal' = [showBuyModal EXCEPT ![d] = FALSE]
  /\ UNCHANGED store
  /\ UNCHANGED sellerPages
  /\ UNCHANGED adminPages
  /\ UNCHANGED raterPages

\* useAuth() yields another user on the mounted page d (account switch): the
\* effect on [id, user] runs fetchListing again; the state showBuyModal is kept
DetailAuthStateChange(d, u) ==
  /\ detail[d].id # NULL
  /\ u \in Users
  /\ u # dtUser[d]
  /\ LET row == FetchedListing(u, detail[d].id)
     IN /\ detail' = [detail EXCEPT ![d] = row]
        /\ dtUser' = [dtUser EXCEPT ![d] = IF row.id # NULL THEN u ELSE NULL]
        /\ showBuyModal' = [showBuyModal EXCEPT ![d] = row.id # NULL /\ showBuyModal[d]]
  /\ UNCHANGED store
  /\ UNCHANGED sellerPages
  /\ UNCHANGED adminPages
  /\ UNCHANGED raterPages

\* the Buy button of ListingDetail: hidden when the loaded listing is sold or
\* is the user's own (listing.seller_id !== user?.id)
BuyButtonShown(d) ==
  /\ detail[d].id # NULL
  /\ detail[d].status # "sold"
  /\ detail[d].seller_id # dtUser[d]

\* the Buy button is pressed: setShowBuyModal(true)
ShowBuyModal(d) ==
  /\ BuyButtonShown(d)
  /\ ~showBuyModal[d]
  /\ showBuyModal' = [showBuyModal EXCEPT ![d] = TRUE]
  /\ UNCHANGED <<detail, dtUser>>
  /\ UNCHANGED store
  /\ UNCHANGED sellerPages
  /\ UNCHANGED adminPages
  /\ UNCHANGED raterPages

\* the BuyModal (mounted when there is a user) is dismissed: onOpenChange(false)
CloseBuyModal(d) ==
  /\ showBuyModal[d]
  /\ dtUser[d] # NULL
  /\ showBuyModal' = [showBuyModal EXCEPT ![d] = FALSE]
  /\ UNCHANGED <<detail, dtUser>>
  /\ UNCHANGED store
  /\ UNCHANGED sellerPages
  /\ UNCHANGED adminPages
  /\ UNCHANGED raterPages

\* a row whose seller is taken from the session instead of the listing
TransactionDataOwnSeller(d) ==
  [listing_id |-> detail[d].id, buyer_id |-> dtUser[d], seller_id |-> dtUser[d],
   amount |-> detail[d].price, status |-> "pending", transaction_type |-> "purchase",
   completed_at |-> NULL]

\* the row BuyModal.handlePurchase inserts
TransactionData(d) ==
  LET isBorrow == detail[d].listing_type = "borrow"
  IN [listing_id |-> detail[d].id, buyer_id |-> dtUser[d], seller_id |-> detail[d].seller_id,
      amount |-> IF isBorrow THEN 0 ELSE detail[d].price,
      status |-> "pending",
      transaction_type |-> IF isBorrow THEN "borrow" ELSE "purchase",
      completed_at |-> NULL]

\* the requests of handlePurchase: insert the transaction (listing_id REFERENCES
\* listings(id): refused when the listing is gone), then notify the seller
Purchase(d, failed) ==
  /\ dtUser[d] # NULL
  /\ Len(transactions) < MaxTransactions
  /\ detail[d].id \in DOMAIN listings
  /\ transactions' = Append(transactions, TransactionData(d))
  /\ notifications' = InsertNotifications(notifications, listings,
       <<Notification(detail[d].seller_id, "purchase", detail[d].id)>>, failed)
  /\ UNCHANGED <<statusCheck, listings, nextListing, detail, dtUser>>
  /\ UNCHANGED sellerPages
  /\ UNCHANGED adminPages
  /\ UNCHANGED raterPages

\* BuyModal.handlePurchase: the confirm button of the open modal; after the
\* inserts the modal is closed
HandlePurchase(d, failed) ==
  /\ showBuyModal[d]
  /\ Purchase(d, failed)
  /\ showBuyModal' = [showBuyModal EXCEPT ![d] = FALSE]

\* a signed-in user presses the Buy button and confirms in the modal at once:
\* ShowBuyModal followed by HandlePurchase with no step of another page between
BuyNow(d, failed) ==
  /\ BuyButtonShown(d)
  /\ ~showBuyModal[d]
  /\ Purchase(d, failed)
  /\ UNCHANGED showBuyModal

\* ------------------------------------------------------------------ MyListings
\* the pending transactions of listing l that MyListings.fetchListings shows to
\* user uid, as InterestedBuyer records
InterestedBuyers(uid, l) ==
  {[transaction_id |-> i, buyer_id |-> transactions[i].buyer_id] :
     i \in {j \in DOMAIN transactions :
              /\ transactions[j].listing_id = l
              /\ transactions[j].status = "pending"
              /\ TransactionSelectPolicy(uid, transactions[j])}}

\* MyListings.fetchListings: the listings of the user with their pending
\* transactions
FetchListings(uid) ==
  {[id |-> l, status |-> listings[l].status, seller_id |-> listings[l].seller_id,
    interested_buyers |-> InterestedBuyers(uid, l)] :
     l \in {x \in DOMAIN listings : listings[x].seller_id = uid}}

\* useAuth() yields another user (sign in, account switch); the
\* effect on [user] starts fetchListings when there is a user
AuthStateChange(p, u) ==
  /\ u \in Users
  /\ u # mlUser[p]
  /\ mlUser' = [mlUser EXCEPT ![p] = u]
  /\ mlLoading' = [mlLoading EXCEPT ![p] = TRUE]
  /\ UNCHANGED <<mlListings, selectedListing, processingBuyer, call>>
  /\ UNCHANGED store
  /\ UNCHANGED buyerPages
  /\ UNCHANGED adminPages
  /\ UNCHANGED raterPages

\* the fetchListings in flight of page p resolves: setListings, setLoading(false)
FetchListingsDone(p) ==
  /\ mlUser[p] # NULL
  /\ mlLoading[p]
  /\ mlListings' = [mlListings EXCEPT ![p] = FetchListings(mlUser[p])]
  /\ mlLoading' = [mlLoading EXCEPT ![p] = FALSE]
  /\ UNCHANGED <<mlUser, selectedListing, processingBuyer, call>>
  /\ UNCHANGED store
  /\ UNCHANGED buyerPages
  /\ UNCHANGED adminPages
  /\ UNCHANGED raterPages

\* MyListings.openBuyersDialog: the "View Interested" button of an approved
\* listing with interested buyers (the list is not rendered while loading, and
\* it is out of reach behind the dialog while the dialog is open)
OpenBuyersDialog(p, s) ==
  /\ ~mlLoading[p]
  /\ selectedListing[p].id = NULL
  /\ s \in mlListings[p]
  /\ s.status = "approved"
  /\ s.interested_buyers # {}
  /\ selectedListing' = [selectedListing EXCEPT ![p] = s]
  /\ UNCHANGED <<mlUser, mlLoading, mlListings, processingBuyer, call>>
  /\ UNCHANGED store
  /\ UNCHANGED buyerPages
  /\ UNCHANGED adminPages
  /\ UNCHANGED raterPages

\* the dialog is dismissed: onOpenChange(false); a call in flight runs on
CloseBuyersDialog(p) ==
  /\ selectedListing[p].id # NULL
  /\ selectedListing' = [selectedListing EXCEPT ![p] = NoListing]
  /\ UNCHANGED <<mlUser, mlLoading, mlListings, processingBuyer, call>>
  /\ UNCHANGED store
  /\ UNCHANGED buyerPages
  /\ UNCHANGED adminPages
  /\ UNCHANGED raterPages

\* MyListings.handleDelete: the Delete button of a listing not shown as sold
HandleDelete(p, s) ==
  /\ ~mlLoading[p]
  /\ selectedListing[p].id = NULL
  /\ s \in mlListings[p]
  /\ s.status # "sold"
  /\ LET hit == /\ s.id \in DOMAIN listings
                /\ ListingDeletePolicy(mlUser[p], FALSE, listings[s.id])
     IN /\ listings' = IF hit THEN DeleteListingRow(s.id) ELSE listings
        /\ transactions' = IF hit THEN SetNullListing(s.id) ELSE transactions
        /\ notifications' = IF hit THEN CascadeNotifications(s.id) ELSE notifications
  /\ mlLoading' = [mlLoading EXCEPT ![p] = TRUE]
  /\ UNCHANGED <<mlUser, mlListings, selectedListing, processingBuyer, call>>
  /\ UNCHANGED <<statusCheck, nextListing, detail, dtUser, showBuyModal>>
  /\ UNCHANGED adminPages
  /\ UNCHANGED raterPages

\* ------------------------------------------------------------------ handleAcceptBuyer
Timestamp == 1   \* new Date().toISOString(): some non-null time

\* step 2: UPDATE transactions SET status = 'completed', completed_at = now
\* WHERE id = t AND seller_id = sellerFilter
CompleteTransaction(t, sellerFilter, uid) ==
  [i \in DOMAIN transactions |->
     IF /\ i = t
        /\ transactions[i].seller_id = sellerFilter
        /\ TransactionUpdatePolicy(uid, transactions[i])
       THEN [transactions[i] EXCEPT !.status = "completed", !.completed_at = Timestamp]
       ELSE transactions[i]]

\* a cancel step that is not idempotent: it flips a cancelled offer back to
\* pending
CancelTransactionsToggling(txs, ids, uid) ==
  [i \in DOMAIN txs |->
     IF i \in ids /\ TransactionUpdatePolicy(uid, txs[i])
       THEN [txs[i] EXCEPT !.status = IF @ = "cancelled" THEN "pending" ELSE "cancelled"]
       ELSE txs[i]]

\* step 3: UPDATE transactions SET status = 'cancelled' WHERE id IN ids
CancelTransactions(txs, ids, uid) ==
  [i \in DOMAIN txs |->
     IF i \in ids /\ TransactionUpdatePolicy(uid, txs[i])
       THEN [txs[i] EXCEPT !.status = "cancelled"]
       ELSE txs[i]]

\* listing.interested_buyers without the accepted buyer, in the order of the list
OtherBuyers(c) ==
  LET others == {b \in c.listing.interested_buyers : b.transaction_id # c.buyer.transaction_id}
      RECURSIVE Ordered(_)
      Ordered(S) ==
        IF S = {} THEN <<>>
        ELSE LET b == CHOOSE x \in S : \A y \in S : x.transaction_id <= y.transaction_id
             IN <<b>> \o Ordered(S \ {b})
  IN Ordered(others)

OtherTransactionIds(c) == {OtherBuyers(c)[i].transaction_id : i \in DOMAIN OtherBuyers(c)}

\* step 4: the notification rows of Promise.all
AcceptNotifications(c) ==
  <<Notification(c.buyer.buyer_id, "purchase_confirmed", c.listing.id)>> \o
  [i \in DOMAIN OtherBuyers(c) |->
     Notification(OtherBuyers(c)[i].buyer_id, "purchase_rejected", c.listing.id)]

\* the Accept button of the Interested Buyers dialog: disabled while
\* processingBuyer is set; the call captures user, listing and buyer and sends
\* the step 1 request
HandleAcceptBuyer(p, b) ==
  /\ mlUser[p] # NULL
  /\ selectedListing[p].id # NULL
  /\ b \in selectedListing[p].interested_buyers
  /\ processingBuyer[p] = NULL
  /\ processingBuyer' = [processingBuyer EXCEPT ![p] = b.transaction_id]
  /\ call' = [call EXCEPT ![p] =
       [pc |-> "step1", user |-> mlUser[p], listing |-> selectedListing[p], buyer |-> b,
        cancelError |-> FALSE, listed |-> Listed(selectedListing[p].id), rows |-> 0,
        won |-> FALSE, left |-> {}, outcome |-> "none"]]
  /\ UNCHANGED <<mlUser, mlLoading, mlListings, selectedListing>>
  /\ UNCHANGED store
  /\ UNCHANGED buyerPages
  /\ UNCHANGED adminPages
  /\ UNCHANGED raterPages

\* a call that has ended: its outcome, for which listing and offer it ran,
\* whether it started on a listed listing, whether it won the listing and
\* whether its cancel step failed; its other locals are dead
Finished(c, out) ==
  [NoCall EXCEPT !.outcome = out, !.listed = c.listed, !.won = c.won,
                 !.cancelError = c.cancelError,
                 !.listing = [NoListing EXCEPT !.id = c.listing.id],
                 !.buyer = [NoBuyer EXCEPT !.transaction_id = c.buyer.transaction_id]]

\* a catch without the finally block: processingBuyer is left set
ThrowKeepingMarker(p, message) ==
  /\ call' = [call EXCEPT ![p] = Finished(call[p], message)]
  /\ UNCHANGED <<mlUser, mlLoading, mlListings, selectedListing, processingBuyer>>

\* catch + finally: toast.error(error.message), setProcessingBuyer(null)
Throw(p, message) ==
  /\ call' = [call EXCEPT ![p] = Finished(call[p], message)]
  /\ processingBuyer' = [processingBuyer EXCEPT ![p] = NULL]
  /\ UNCHANGED <<mlUser, mlLoading, mlListings, selectedListing>>

\* the success path as it would be if a failed notification insert were thrown
FinishThrowing(p, failed, cancelError) ==
  IF failed \cap DOMAIN AcceptNotifications(call[p]) # {}
    THEN /\ Throw(p, "Notification error")
         /\ UNCHANGED notifications
    ELSE /\ notifications' = InsertNotifications(notifications, listings,
                                AcceptNotifications(call[p]), failed)
         /\ call' = [call EXCEPT ![p] =
              Finished([call[p] EXCEPT !.cancelError = cancelError], Success)]
         /\ selectedListing' = [selectedListing EXCEPT ![p] = NoListing]
         /\ mlLoading' = [mlLoading EXCEPT ![p] = TRUE]
         /\ processingBuyer' = [processingBuyer EXCEPT ![p] = NULL]
         /\ UNCHANGED <<mlUser, mlListings>>

\* step 4 and the success path: the notification inserts are sent and not
\* awaited, toast.success, the dialog is closed, fetchListings is started,
\* and the finally block clears processingBuyer; cancelError: whether step 3
\* ran and returned an error
Finish(p, failed, cancelError) ==
  /\ notifications' = InsertNotifications(notifications, listings,
                         AcceptNotifications(call[p]), failed)
  /\ call' = [call EXCEPT ![p] =
       [Finished([call[p] EXCEPT !.cancelError = cancelError], Success) EXCEPT !.left =
          {i \in DOMAIN transactions' :
             /\ transactions'[i].listing_id = call[p].listing.id
             /\ transactions'[i].status = "pending"
             /\ i # call[p].buyer.transaction_id}]]
  /\ selectedListing' = [selectedListing EXCEPT ![p] = NoListing]
  /\ mlLoading' = [mlLoading EXCEPT ![p] = TRUE]
  /\ processingBuyer' = [processingBuyer EXCEPT ![p] = NULL]
  /\ UNCHANGED <<mlUser, mlListings>>

\* step 1 lands: UPDATE listings SET status = 'sold' WHERE id = listing.id AND
\* seller_id = user.id; ok = FALSE is a request that fails on its way
AcceptStep1(p, ok) ==
  /\ call[p].pc = "step1"
  /\ LET c == call[p]
         r == UpdateListingStatus(c.listing.id, c.user, c.user, FALSE, "sold")
     IN IF ~ok \/ r.error
          THEN /\ Throw(p, AlreadyFinalized)
               /\ UNCHANGED listings
          ELSE /\ listings' = r.listings
               /\ call' = [call EXCEPT ![p].pc = "step2", ![p].rows = r.rows,
                             ![p].won = (r.rows = 1 /\ StoredStatus(c.listing.id) = "approved")]
               /\ UNCHANGED <<mlUser, mlLoading, mlListings, selectedListing, processingBuyer>>
  /\ UNCHANGED <<statusCheck, nextListing, transactions, notifications, detail, dtUser, showBuyModal>>
  /\ UNCHANGED adminPages
  /\ UNCHANGED raterPages

\* step 2 lands; with no other interested buyer step 3 sends nothing and the
\* call runs on to its end
AcceptStep2(p, ok, failed) ==
  /\ call[p].pc = "step2"
  /\ LET c == call[p]
     IN IF ~ok
          THEN /\ Throw(p, OfferInvalid)
               /\ UNCHANGED <<transactions, notifications>>
          ELSE /\ transactions' = CompleteTransaction(c.buyer.transaction_id, c.user, c.user)
               /\ IF OtherTransactionIds(c) # {}
                    THEN /\ call' = [call EXCEPT ![p].pc = "step3"]
                         /\ UNCHANGED <<mlUser, mlLoading, mlListings, selectedListing,
                                        processingBuyer, notifications>>
                    ELSE Finish(p, failed, FALSE)
  /\ UNCHANGED <<statusCheck, listings, nextListing, detail, dtUser, showBuyModal>>
  /\ UNCHANGED adminPages
  /\ UNCHANGED raterPages

\* step 3 as it would be if a cancelError were thrown like the other errors
AcceptStep3Throwing(p, ok, failed) ==
  /\ call[p].pc = "step3"
  /\ IF ok
       THEN /\ transactions' = CancelTransactions(transactions, OtherTransactionIds(call[p]),
                                                  call[p].user)
            /\ Finish(p, failed, FALSE)
       ELSE /\ Throw(p, "Failed to cancel transactions")
            /\ UNCHANGED <<transactions, notifications>>
  /\ UNCHANGED <<statusCheck, listings, nextListing, detail, dtUser, showBuyModal>>
  /\ UNCHANGED adminPages
  /\ UNCHANGED raterPages

\* step 3 lands (an error of the cancel is logged, not thrown), then step 4
AcceptStep3(p, ok, failed) ==
  /\ call[p].pc = "step3"
  /\ transactions' = IF ok
                        THEN CancelTransactions(transactions, OtherTransactionIds(call[p]),
                                                call[p].user)
                        ELSE transactions
  /\ Finish(p, failed, ~ok)
  /\ UNCHANGED <<statusCheck, listings, nextListing, detail, dtUser, showBuyModal>>
  /\ UNCHANGED adminPages
  /\ UNCHANGED raterPages

\* ------------------------------------------------------------------ Transactions
RaterTabs == {"purchases", "sales"}

\* policy "Users can create ratings for their transactions"
RatingInsertPolicy(uid, row) == uid # NULL /\ row.rater_id = uid

\* Transactions.fetchTransactions of user uid under tab `tab`: the transactions
\* whose buyer_id (purchases) or seller_id (sales) is the user, each with
\* whether the user has rated it
FetchTransactions(uid, tab) ==
  {[id |-> i, buyer_id |-> transactions[i].buyer_id, seller_id |-> transactions[i].seller_id,
    status |-> transactions[i].status,
    rating |-> \E j \in DOMAIN ratings :
                 ratings[j].transaction_id = i /\ ratings[j].rater_id = uid] :
     i \in {j \in DOMAIN transactions :
              /\ TransactionSelectPolicy(uid, transactions[j])
              /\ IF tab = "purchases" THEN transactions[j].buyer_id = uid
                                       ELSE transactions[j].seller_id = uid}}

\* useAuth() yields another user; the effect on [user, activeTab] starts
\* fetchTransactions
TrAuthStateChange(p, u) ==
  /\ u \in Users
  /\ u # trUser[p]
  /\ trUser' = [trUser EXCEPT ![p] = u]
  /\ trLoading' = [trLoading EXCEPT ![p] = TRUE]
  /\ trFetches' = [trFetches EXCEPT ![p] = @ \cup {[user |-> u, tab |-> trTab[p]]}]
  /\ UNCHANGED <<ratings, trTab, trTransactions, selectedTransaction, trInserts>>
  /\ UNCHANGED store
  /\ UNCHANGED sellerPages
  /\ UNCHANGED buyerPages
  /\ UNCHANGED adminPages

\* Transactions: the other tab is chosen (the tabs are out of reach behind the
\* rating dialog while it is open); the effect on [user, activeTab] starts
\* fetchTransactions when there is a user
TrSetActiveTab(p, tab) ==
  /\ tab \in RaterTabs
  /\ tab # trTab[p]
  /\ selectedTransaction[p].id = NULL
  /\ trTab' = [trTab EXCEPT ![p] = tab]
  /\ IF trUser[p] # NULL
       THEN /\ trLoading' = [trLoading EXCEPT ![p] = TRUE]
            /\ trFetches' = [trFetches EXCEPT ![p] = @ \cup {[user |-> trUser[p], tab |-> tab]}]
       ELSE UNCHANGED <<trLoading, trFetches>>
  /\ UNCHANGED <<ratings, trUser, trTransactions, selectedTransaction, trInserts>>
  /\ UNCHANGED store
  /\ UNCHANGED sellerPages
  /\ UNCHANGED buyerPages
  /\ UNCHANGED adminPages

\* a fetchTransactions in flight of page p resolves: setTransactions,
\* setLoading(false)
FetchTransactionsDone(p, f) ==
  /\ f \in trFetches[p]
  /\ trFetches' = [trFetches EXCEPT ![p] = @ \ {f}]
  /\ trTransactions' = [trTransactions EXCEPT ![p] = FetchTransactions(f.user, f.tab)]
  /\ trLoading' = [trLoading EXCEPT ![p] = FALSE]
  /\ UNCHANGED <<ratings, trUser, trTab, selectedTransaction, trInserts>>
  /\ UNCHANGED store
  /\ UNCHANGED sellerPages
  /\ UNCHANGED buyerPages
  /\ UNCHANGED adminPages

\* Transactions.openRatingDialog: the Rate button of a transaction shown as
\* completed and not rated (the list is not rendered while loading)
OpenRatingDialog(p, t) ==
  /\ ~trLoading[p]
  /\ selectedTransaction[p].id = NULL
  /\ t \in trTransactions[p]
  /\ t.status = "completed"
  /\ ~t.rating
  /\ selectedTransaction' = [selectedTransaction EXCEPT ![p] = t]
  /\ UNCHANGED <<ratings, trUser, trTab, trLoading, trFetches, trTransactions, trInserts>>
  /\ UNCHANGED store
  /\ UNCHANGED sellerPages
  /\ UNCHANGED buyerPages
  /\ UNCHANGED adminPages

\* the rating dialog is dismissed (Cancel, onOpenChange(false))
CloseRatingDialog(p) ==
  /\ selectedTransaction[p].id # NULL
  /\ selectedTransaction' = [selectedTransaction EXCEPT ![p] = NoTransaction]
  /\ UNCHANGED <<ratings, trUser, trTab, trLoading, trFetches, trTransactions, trInserts>>
  /\ UNCHANGED store
  /\ UNCHANGED sellerPages
  /\ UNCHANGED buyerPages
  /\ UNCHANGED adminPages

\* the row Transactions.submitRating inserts
RatingData(p) ==
  [transaction_id |-> selectedTransaction[p].id,
   rater_id |-> trUser[p],
   rated_user_id |-> IF trTab[p] = "purchases" THEN selectedTransaction[p].seller_id
                                               ELSE selectedTransaction[p].buyer_id]

\* Transactions.submitRating: the Submit button of the rating dialog sends the
\* insert; the button stays enabled while inserts are in flight
SubmitRating(p) ==
  /\ trUser[p] # NULL
  /\ selectedTransaction[p].id # NULL
  /\ Len(trInserts[p]) < MaxInserts
  /\ trInserts' = [trInserts EXCEPT ![p] =
       Append(@, [row |-> RatingData(p), tab |-> trTab[p]])]
  /\ UNCHANGED <<ratings, trUser, trTab, trLoading, trFetches, trTransactions,
                 selectedTransaction>>
  /\ UNCHANGED store
  /\ UNCHANGED sellerPages
  /\ UNCHANGED buyerPages
  /\ UNCHANGED adminPages

\* the oldest insert in flight of page p lands; ok = FALSE is a request that
\* fails on its way.  On success: toast, the dialog is closed and
\* fetchTransactions is started; on error: toast only
SubmitRatingDone(p, ok) ==
  /\ trInserts[p] # <<>>
  /\ LET r == Head(trInserts[p])
         stored == ok /\ RatingInsertPolicy(r.row.rater_id, r.row)
     IN /\ stored => Len(ratings) < MaxRatings
        /\ trInserts' = [trInserts EXCEPT ![p] = Tail(@)]
        /\ IF stored
             THEN /\ ratings' = Append(ratings, r.row)
                  /\ selectedTransaction' = [selectedTransaction EXCEPT ![p] = NoTransaction]
                  /\ trLoading' = [trLoading EXCEPT ![p] = TRUE]
                  /\ trFetches' = [trFetches EXCEPT ![p] =
                       @ \cup {[user |-> r.row.rater_id, tab |-> r.tab]}]
             ELSE UNCHANGED <<ratings, selectedTransaction, trLoading, trFetches>>
  /\ UNCHANGED <<trUser, trTab, trTransactions>>
  /\ UNCHANGED store
  /\ UNCHANGED sellerPages
  /\ UNCHANGED buyerPages
  /\ UNCHANGED adminPages

\* ------------------------------------------------------------------ specifications
Tabs == {"pending", "approved", "rejected"}

\* the notification requests of one handler (at most one per transaction and
\* one more) and the sets of them that may fail
Requests == 1..(MaxTransactions + 1)
NoneFail == {{}}
AnyFail == SUBSET Requests

\* the steps of the handleAcceptBuyer calls in flight and the fetches in
\* flight of the MyListings pages P; OK: whether a request to the store may
\* fail on its way (FALSE); F: the sets of notification requests that may fail
InFlight(P, OK, F) ==
  \/ \E p \in P : FetchListingsDone(p)
  \/ \E p \in P, ok \in OK : AcceptStep1(p, ok)
  \/ \E p \in P, ok \in OK : \E failed \in F : AcceptStep2(p, ok, failed)
  \/ \E p \in P, ok \in OK : \E failed \in F : AcceptStep3(p, ok, failed)

\* the clicks of the seller on the MyListings pages P
Seller(P) ==
  \/ \E p \in P : \E s \in mlListings[p] : OpenBuyersDialog(p, s)
  \/ \E p \in P : CloseBuyersDialog(p)
  \/ \E p \in P : \E s \in mlListings[p] : HandleDelete(p, s)
  \/ \E p \in P : \E b \in selectedListing[p].interested_buyers : HandleAcceptBuyer(p, b)

\* the owner of a listing opens MyListings in page p
OwnerSignsIn(p) ==
  \E l \in DOMAIN listings : mlUser[p] = NULL /\ AuthStateChange(p, listings[l].seller_id)

\* a user other than the owner opens the page of a listing and buys
Buyers(F) ==
  \/ \E u \in Users, l \in DOMAIN listings : listings[l].seller_id # u /\ FetchListing(u, u, l)
  \/ \E u \in Users : \E failed \in F : BuyNow(u, failed)

\* the k-th listing is created by one of the users 1..k (users are interchangeable)
SomeoneCreates == \E u \in Users : u <= nextListing /\ CreateListing(u, MaxPrice, "sale")

\* the moderators of the Admin pages A working through the pending tab
Moderation(A, F) ==
  \/ \E a \in A : AdminSetActiveTab(a, "pending")
  \/ \E a \in A, l \in ListingIds, st \in {"approved", "rejected"} :
       \E failed \in F : AdminUpdateStatus(a, l, st, failed)

\* the clicks of the user on the Transactions pages P
Rater(P) ==
  \/ \E p \in P, tab \in RaterTabs : TrSetActiveTab(p, tab)
  \/ \E p \in P : \E t \in trTransactions[p] : OpenRatingDialog(p, t)
  \/ \E p \in P : CloseRatingDialog(p)
  \/ \E p \in P : SubmitRating(p)

\* the fetches and the rating inserts in flight of the Transactions pages P
RatingsInFlight(P, OK) ==
  \/ \E p \in P : \E f \in trFetches[p] : FetchTransactionsDone(p, f)
  \/ \E p \in P, ok \in OK : SubmitRatingDone(p, ok)

\* every handler, by every page and user, every request failing or not
Next ==
  \/ \E u \in Users, price \in Prices, listingType \in ListingTypes :
       CreateListing(u, price, listingType)
  \/ \E a \in AdminPages, tab \in Tabs : AdminSetActiveTab(a, tab)
  \/ \E a \in AdminPages, l \in ListingIds, st \in {"approved", "rejected"} :
       \E failed \in AnyFail : AdminUpdateStatus(a, l, st, failed)
  \/ \E a \in AdminPages, l \in ListingIds : AdminDeleteListing(a, l)
  \/ \E d \in DetailPages, u \in Users, l \in ListingIds : FetchListing(d, u, l)
  \/ \E d \in DetailPages, u \in Users : DetailAuthStateChange(d, u)
  \/ \E d \in DetailPages : ShowBuyModal(d)
  \/ \E d \in DetailPages : CloseBuyModal(d)
  \/ \E d \in DetailPages : \E failed \in AnyFail : HandlePurchase(d, failed)
  \/ \E p \in Pages, u \in Users : AuthStateChange(p, u)
  \/ Seller(Pages)
  \/ InFlight(Pages, BOOLEAN, AnyFail)
  \/ \E p \in RaterPages, u \in Users : TrAuthStateChange(p, u)
  \/ Rater(RaterPages)
  \/ RatingsInFlight(RaterPages, BOOLEAN)

Spec == Init /\ [][Next]_vars

\* The sale scenario: one moderator, buyers, and the owner with MyListings
\* open in every page; every request reaches the store.
SaleNext ==
  \/ SomeoneCreates
  \/ Moderation({1}, NoneFail)
  \/ Buyers(NoneFail)
  \/ \E p \in Pages : OwnerSignsIn(p)
  \/ Seller(Pages)
  \/ InFlight(Pages, {TRUE}, NoneFail)

SpecSale == Init /\ [][SaleNext]_vars

SpecSaleSoldAccepted == InitSoldAccepted /\ [][SaleNext]_vars

\* every request in flight is answered; no click is ever due
FairSaleSoldAccepted ==
  SpecSaleSoldAccepted /\ WF_vars(InFlight(Pages, {TRUE}, NoneFail))

\* The moderation scenario: every Admin page with all its tabs, buyers, and
\* the owner with MyListings open in one page.
ModerationNext ==
  \/ SomeoneCreates
  \/ \E a \in AdminPages, tab \in Tabs : AdminSetActiveTab(a, tab)
  \/ \E a \in AdminPages, l \in ListingIds, st \in {"approved", "rejected"} :
       \E failed \in NoneFail : AdminUpdateStatus(a, l, st, failed)
  \/ \E a \in AdminPages, l \in ListingIds : AdminDeleteListing(a, l)
  \/ Buyers(NoneFail)
  \/ OwnerSignsIn(1)
  \/ Seller({1})
  \/ InFlight({1}, {TRUE}, NoneFail)

SpecModeration == Init /\ [][ModerationNext]_vars

SpecModerationSoldAccepted == InitSoldAccepted /\ [][ModerationNext]_vars

\* The account scenario: one moderator, buyers, and one MyListings page whose
\* user changes (sign in, account switch).
AccountsNext ==
  \/ SomeoneCreates
  \/ Moderation({1}, NoneFail)
  \/ Buyers(NoneFail)
  \/ \E u \in Users : AuthStateChange(1, u)
  \/ Seller({1})
  \/ InFlight({1}, {TRUE}, NoneFail)

SpecAccounts == Init /\ [][AccountsNext]_vars

SpecAccountsSoldAccepted == InitSoldAccepted /\ [][AccountsNext]_vars


\* The failure scenario: one moderator, buyers, and the owner with MyListings
\* open in one page; every request to the store may fail on its way.
FailuresNext ==
  \/ SomeoneCreates
  \/ Moderation({1}, AnyFail)
  \/ Buyers(AnyFail)
  \/ OwnerSignsIn(1)
  \/ Seller({1})
  \/ InFlight({1}, BOOLEAN, AnyFail)

SpecFailures == Init /\ [][FailuresNext]_vars

SpecFailuresSoldAccepted == InitSoldAccepted /\ [][FailuresNext]_vars

\* the store answers the request in flight of the call of page p, with a
\* result or with an error
Answered(p) ==
  \/ \E ok \in BOOLEAN : AcceptStep1(p, ok)
  \/ \E ok \in BOOLEAN : \E failed \in AnyFail : AcceptStep2(p, ok, failed)
  \/ \E ok \in BOOLEAN : \E failed \in AnyFail : AcceptStep3(p, ok, failed)

\* the failure scenario in which every request of a call is answered
FairFailures == SpecFailures /\ WF_vars(Answered(1))

FairFailuresSoldAccepted == SpecFailuresSoldAccepted /\ WF_vars(Answered(1))

\* a user opens the Transactions page p
RaterSignsIn(p) == \E u \in Users : trUser[p] = NULL /\ TrAuthStateChange(p, u)

\* The rating scenario: one moderator, buyers, the owner with MyListings open
\* in one page, and users with the Transactions page open.
RatingNext ==
  \/ SomeoneCreates
  \/ Moderation({1}, NoneFail)
  \/ Buyers(NoneFail)
  \/ OwnerSignsIn(1)
  \/ Seller({1})
  \/ InFlight({1}, {TRUE}, NoneFail)
  \/ \E p \in RaterPages : RaterSignsIn(p)
  \/ Rater(RaterPages)
  \/ RatingsInFlight(RaterPages, {TRUE})

SpecRating == Init /\ [][RatingNext]_vars

SpecRatingSoldAccepted == InitSoldAccepted /\ [][RatingNext]_vars

\* a party of a completed transaction opens the Transactions page p
PartySignsIn(p) ==
  \E i \in DOMAIN transactions, u \in Users :
    /\ transactions[i].status = "completed"
    /\ u \in {transactions[i].buyer_id, transactions[i].seller_id}
    /\ trUser[p] = NULL
    /\ TrAuthStateChange(p, u)

\* The late rating scenario: the sale scenario, and a party of a completed
\* transaction who opens the Transactions page, picks a transaction and
\* submits one rating at a time.
LateRatingNext ==
  \/ SaleNext
  \/ \E p \in RaterPages : PartySignsIn(p)
  \/ \E p \in RaterPages : \E f \in trFetches[p] : FetchTransactionsDone(p, f)
  \/ \E p \in RaterPages : \E t \in trTransactions[p] : OpenRatingDialog(p, t)
  \/ \E p \in RaterPages : trInserts[p] = <<>> /\ SubmitRating(p)
  \/ \E p \in RaterPages : SubmitRatingDone(p, TRUE)

SpecLateRating == Init /\ [][LateRatingNext]_vars

SpecLateRatingSoldAccepted == InitSoldAccepted /\ [][LateRatingNext]_vars

\* the visitors of the browsers D on the ListingDetail page: user d opens the
\* page in browser d, the session of the browser changes to another user of D,
\* the Buy button, the modal and its confirm button
Visitors(D, F) ==
  \/ \E d \in D, l \in DOMAIN listings : FetchListing(d, d, l)
  \/ \E d \in D, u \in D : DetailAuthStateChange(d, u)
  \/ \E d \in D : ShowBuyModal(d)
  \/ \E d \in D : CloseBuyModal(d)
  \/ \E d \in D : \E failed \in F : HandlePurchase(d, failed)

\* The offers scenario: listings of either type at any price, one moderator
\* who also deletes, the owner and one other user as visitors, and the owner
\* with MyListings open in one page.
OffersNext ==
  \/ \E u \in Users, price \in Prices, listingType \in ListingTypes :
       u <= nextListing /\ CreateListing(u, price, listingType)
  \/ \E tab \in Tabs : AdminSetActiveTab(1, tab)
  \/ \E l \in ListingIds, st \in {"approved", "rejected"} :
       \E failed \in NoneFail : AdminUpdateStatus(1, l, st, failed)
  \/ \E l \in ListingIds : AdminDeleteListing(1, l)
  \/ Visitors({1, 2}, NoneFail)
  \/ OwnerSignsIn(1)
  \/ Seller({1})
  \/ InFlight({1}, {TRUE}, NoneFail)

SpecOffers == Init /\ [][OffersNext]_vars

SpecOffersSoldAccepted == InitSoldAccepted /\ [][OffersNext]_vars

\* ------------------------------------------------------------------ claims
\* the handleAcceptBuyer calls that have ended, were started while listing l
\* was listed with two or more pending offers, and ran for listing l
EndedCalls(l) ==
  {p \in Pages : /\ call[p].pc = "idle"
                 /\ call[p].outcome # "none"
                 /\ call[p].listed
                 /\ call[p].listing.id = l}

\* a step of the handleAcceptBuyer call of page p
CallStep(p) == call[p].pc # "idle" /\ call'[p] # call[p]

\* the step 1 request of the call of page p lands
Step1Lands(p) == call[p].pc = "step1" /\ call'[p] # call[p]

\* C1 (at-most-one-sale): of the finalize calls for distinct offers of a
\* listing that was listed with two or more pending offers, exactly one ends in
\* success and every other one ends in AlreadyFinalized.
C1_ExactlyOneSuccess ==
  \A l \in ListingIds : \A D \in SUBSET EndedCalls(l) :
    ( /\ Cardinality(D) >= 2
      /\ \A p, q \in D : p # q => call[p].buyer.transaction_id # call[q].buyer.transaction_id )
    => /\ Cardinality({p \in D : call[p].outcome = Success}) = 1
       /\ \A p \in D : call[p].outcome \in {Success, AlreadyFinalized}

C3_OnlyPendingChanges ==
  [][\A i \in DOMAIN transactions :
       transactions'[i].status # transactions[i].status
         => /\ transactions[i].status = "pending"
            /\ transactions'[i].status \in {"completed", "cancelled"}]_vars

\* C4: a finalize call that did not win the listing (its step 1 did not move
\* the listing from approved to sold) changes the status and completed_at of
\* no offer.
C4_LoserChangesNoOffer ==
  [][\A p \in Pages :
       (CallStep(p) /\ call[p].pc \in {"step2", "step3"} /\ ~call[p].won)
         => transactions' = transactions]_vars

\* the chosen offer of the call of page p does not exist, does not reference
\* the listing of the call, or is not pending
ChosenOfferInvalid(p) ==
  LET t == call[p].buyer.transaction_id
  IN \/ t \notin DOMAIN transactions
     \/ transactions[t].listing_id # call[p].listing.id
     \/ transactions[t].status # "pending"

C6_OfferOnlyWhenListed ==
  [][Len(transactions') > Len(transactions)
       => StoredStatus(transactions'[Len(transactions')].listing_id) = "approved"]_vars

CallerNotOwner(p) ==
  /\ call[p].listing.id \in DOMAIN listings
  /\ listings[call[p].listing.id].seller_id # call[p].user

\* C8: a finalize call whose caller is not the owner of the listing ends with
\* NotAuthorized and leaves the status of the listing and the status and
\* completed_at of the chosen offer unchanged.
C8_NotOwnerNotAuthorized ==
  [][\A p \in Pages :
       (CallStep(p) /\ CallerNotOwner(p))
         => /\ listings' = listings
            /\ transactions'[call[p].buyer.transaction_id]
                 = transactions[call[p].buyer.transaction_id]
            /\ (call'[p].pc = "idle" => call'[p].outcome = NotAuthorized)]_vars

\* C9: when the chosen offer does not exist, does not reference the listing or
\* is not pending, finalize fails with OfferInvalid before any write to the
\* listing or to an offer.
C9_OfferInvalidBeforeWrites ==
  [][\A p \in Pages :
       (Step1Lands(p) /\ ChosenOfferInvalid(p))
         => /\ call'[p].pc = "idle"
            /\ call'[p].outcome = OfferInvalid
            /\ listings' = listings
            /\ transactions' = transactions]_vars

\* C10: finalize on a listing whose stored status is not approved (sold,
\* rejected, pending, or deleted) fails with AlreadyFinalized, leaves the
\* status of the listing as it is and marks no offer completed or cancelled.
C10_NotListedFails ==
  [][\A p \in Pages :
       (Step1Lands(p) /\ StoredStatus(call[p].listing.id) # "approved")
         => /\ call'[p].pc = "idle"
            /\ call'[p].outcome = AlreadyFinalized
            /\ listings' = listings
            /\ transactions' = transactions]_vars

C12_RatingOnlyWhenCompleted ==
  [][Len(ratings') > Len(ratings)
       => transactions[ratings'[Len(ratings')].transaction_id].status = "completed"]_vars

\* C13: there is at most one rating per pair of offer and rater; a further
\* submitRating of the same rater for the same offer stores nothing.
C13_OneRatingPerRater ==
  \A i, j \in DOMAIN ratings :
    ( /\ ratings[i].transaction_id = ratings[j].transaction_id
      /\ ratings[i].rater_id = ratings[j].rater_id )
    => i = j

\* C14: the rated party of every stored rating is the counterpart of the rater
\* in the rated offer: the seller when the rater is the buyer, the buyer when
\* the rater is the seller, and never the rater.
C14_RatedIsCounterpart ==
  \A i \in DOMAIN ratings :
    LET r == ratings[i]
        t == transactions[r.transaction_id]
    IN /\ r.rated_user_id # r.rater_id
       /\ r.rater_id = t.buyer_id => r.rated_user_id = t.seller_id
       /\ r.rater_id = t.seller_id => r.rated_user_id = t.buyer_id

\* the chosen offer of the call of page p is stored as completed
ChosenOfferCompleted(p) ==
  /\ call[p].buyer.transaction_id \in DOMAIN transactions
  /\ transactions[call[p].buyer.transaction_id].status = "completed"

C16_NotificationFailureDropped ==
  [][\A p \in Pages :
       LET c == call[p]
       IN /\ (c.pc = "step3" /\ CallStep(p))
               => /\ call'[p].pc = "idle" /\ call'[p].outcome = Success
                  /\ listings' = listings
                  /\ transactions' \in
                       {transactions,
                        CancelTransactions(transactions, OtherTransactionIds(c), c.user)}
          /\ (c.pc = "step2" /\ CallStep(p) /\ call'[p].pc = "idle")
               => /\ listings' = listings
                  /\ \/ /\ call'[p].outcome = Success
                        /\ transactions' =
                             CompleteTransaction(c.buyer.transaction_id, c.user, c.user)
                     \/ /\ call'[p].outcome = OfferInvalid
                        /\ transactions' = transactions]_vars

\* a call has ended with success and its purchase_confirmed notification is
\* not stored: the insert failed
C16_Witness ==
  \E p \in Pages :
    /\ call[p].pc = "idle" /\ call[p].outcome = Success
    /\ \A n \in notifications :
         ~(n.type = "purchase_confirmed" /\ n.listing_id = call[p].listing.id)

\* the notifications of type `type` among the rows q
OfType(q, type) == {k \in DOMAIN q : q[k].type = type}

\* C17: a finalize that succeeds queues exactly one purchase_confirmed
\* notification, to the buyer of the chosen offer, and one purchase_rejected
\* (item sold) notification for each offer it moved from pending to cancelled,
\* to the buyer of that offer; none for an offer it did not cancel, none to the
\* chosen buyer.
C17_NotificationsMatchCancelled ==
  [][\A p \in Pages :
       (CallStep(p) /\ call'[p].pc = "idle" /\ call'[p].outcome = Success)
         => LET c == call[p]
                q == AcceptNotifications(c)
                moved == {i \in DOMAIN transactions :
                            /\ transactions[i].status = "pending"
                            /\ transactions'[i].status = "cancelled"}
            IN /\ Cardinality(OfType(q, "purchase_confirmed")) = 1
               /\ \A k \in OfType(q, "purchase_confirmed") :
                    q[k].user_id = transactions[c.buyer.transaction_id].buyer_id
               /\ Cardinality(OfType(q, "purchase_rejected")) = Cardinality(moved)
               /\ \A i \in moved : \E k \in OfType(q, "purchase_rejected") :
                    q[k].user_id = transactions[i].buyer_id
               /\ \A k \in OfType(q, "purchase_rejected") :
                    q[k].user_id # transactions[c.buyer.transaction_id].buyer_id]_vars

C19_SoldBeforeCompleted ==
  [][\A p \in Pages :
       LET c == call[p]
           t == c.buyer.transaction_id
       IN /\ (c.pc = "step1" /\ CallStep(p)) => transactions' = transactions
          /\ (c.pc = "step2" /\ CallStep(p))
               => /\ listings' = listings
                  /\ \A i \in DOMAIN transactions : i # t => transactions'[i] = transactions[i]
                  /\ (transactions[t].status # "completed" /\ transactions'[t].status = "completed")
                       => c.rows = 1
          /\ (c.pc = "step3" /\ CallStep(p)) => listings' = listings]_vars

\* C20: in every reachable state an offer has a completed_at if and only if
\* its status is completed.
C20_CompletedAtIffCompleted ==
  \A i \in DOMAIN transactions :
    (transactions[i].completed_at # NULL) <=> (transactions[i].status = "completed")

\* C21: an offer leaves the status pending only in a step of a
\* handleAcceptBuyer call whose caller is the seller of the offer (the owner of
\* the listing the offer was made for).
C21_OnlySellerMovesOffer ==
  [][\A i \in DOMAIN transactions :
       (transactions[i].status = "pending" /\ transactions'[i].status # "pending")
         => \E p \in Pages : CallStep(p) /\ call[p].user = transactions[i].seller_id]_vars

\* a step deletes the row of listing l
Deletes(l) == l \in DOMAIN listings /\ l \notin DOMAIN listings'

\* C22: a step that deletes a listing removes no offer and changes nothing of
\* an offer but the listing reference of the offers of that listing, which it
\* sets to null; and no step ever removes an offer or changes its buyer,
\* seller or amount.
C22_DeleteKeepsOffers ==
  [][/\ \A l \in ListingIds :
          Deletes(l) => transactions' =
            [i \in DOMAIN transactions |->
               IF transactions[i].listing_id = l
                 THEN [transactions[i] EXCEPT !.listing_id = NULL]
                 ELSE transactions[i]]
     /\ \A i \in DOMAIN transactions :
          /\ i \in DOMAIN transactions'
          /\ transactions'[i].buyer_id = transactions[i].buyer_id
          /\ transactions'[i].seller_id = transactions[i].seller_id
          /\ transactions'[i].amount = transactions[i].amount]_vars

\* the listing of a pending offer has been deleted
C22_Witness ==
  \E i \in DOMAIN transactions :
    /\ transactions[i].listing_id = NULL
    /\ transactions[i].status = "pending"
    /\ listings = << >>

\* C23: every offer has a non-negative amount, the amount is 0 exactly when
\* the offer is a borrow, and a purchase carries the price of its listing.
C23_AmountMatchesKind ==
  \A i \in DOMAIN transactions :
    LET t == transactions[i]
    IN /\ t.amount >= 0
       /\ (t.amount = 0) <=> (t.transaction_type = "borrow")
       /\ (t.transaction_type = "purchase" /\ t.listing_id \in DOMAIN listings)
            => t.amount = listings[t.listing_id].price

\* the offers a step creates
Created == DOMAIN transactions' \ DOMAIN transactions

\* C24: every offer is created in status pending with the owner of the listing
\* it references as its seller, and no offer has a seller other than the owner
\* of the listing it references.
C24_SellerIsListingOwner ==
  [][/\ \A i \in Created :
          /\ transactions'[i].status = "pending"
          /\ transactions'[i].listing_id \in DOMAIN listings
          /\ transactions'[i].seller_id = listings[transactions'[i].listing_id].seller_id
     /\ \A i \in DOMAIN transactions' :
          transactions'[i].listing_id \in DOMAIN listings'
            => transactions'[i].seller_id = listings'[transactions'[i].listing_id].seller_id]_vars

\* a pending offer of a buyer on a stored listing of another user
C24_Witness ==
  \E i \in DOMAIN transactions :
    /\ transactions[i].listing_id \in DOMAIN listings
    /\ transactions[i].status = "pending"
    /\ transactions[i].buyer_id # listings[transactions[i].listing_id].seller_id

\* C25: every started handleAcceptBuyer call ends, in success or in a reported
\* failure, and with processingBuyer cleared.
C25_FinalizeTerminates ==
  \A p \in Pages :
    (call[p].pc # "idle")
      ~> (call[p].pc = "idle" /\ call[p].outcome # "none" /\ processingBuyer[p] = NULL)

\* a call has ended in a reported failure and the marker is cleared
C25_Witness ==
  \E p \in Pages :
    /\ call[p].pc = "idle"
    /\ call[p].outcome \in {AlreadyFinalized, OfferInvalid}
    /\ processingBuyer[p] = NULL

\* a page with the states `loading` and `listings` shows the View Interested
\* button for listing l
DialogOffered(loading, snapshots, l) ==
  /\ ~loading
  /\ \E s \in snapshots : s.id = l /\ s.status = "approved" /\ s.interested_buyers # {}

\* C26: a page has at most one handleAcceptBuyer call in flight: a call starts
\* only while no call of the page is in flight and processingBuyer is null, and
\* processingBuyer stays set until the call ends; and once a call has ended in
\* success and the page has fetched its listings again, the page does not
\* offer the Interested Buyers dialog for the listing of that call.
C26_OneCallPerPage ==
  [][\A p \in Pages :
       /\ (call'[p].pc = "step1" /\ call'[p] # call[p])
            => (call[p].pc = "idle" /\ processingBuyer[p] = NULL)
       /\ (call'[p].pc # "idle") => processingBuyer'[p] # NULL
       /\ (call'[p].pc = "idle" /\ call'[p].outcome = Success)
            => ~DialogOffered(mlLoading'[p], mlListings'[p], call'[p].listing.id)]_vars

\* the completed offers that reference listing l
CompletedOffers(l) ==
  {i \in DOMAIN transactions :
     transactions[i].listing_id = l /\ transactions[i].status = "completed"}

C28_SoldIsInDomain ==
  [][/\ \A p \in Pages :
          ( /\ Step1Lands(p)
            /\ StoredStatus(call[p].listing.id) = "approved"
            /\ listings[call[p].listing.id].seller_id = call[p].user )
            => /\ call'[p].pc # "idle"
               /\ listings'[call[p].listing.id].status = "sold"
     /\ \A l \in DOMAIN listings' :
          listings'[l].status \in {"pending", "approved", "rejected", "sold"}]_vars

\* C29: a buyer has at most one pending offer on a listing, and the buyer of
\* the offer chosen in a handleAcceptBuyer call is not among the other buyers
\* the call cancels and notifies.
C29_OnePendingOfferPerBuyer ==
  /\ \A i, j \in DOMAIN transactions :
       ( /\ i # j
         /\ transactions[i].status = "pending" /\ transactions[j].status = "pending"
         /\ transactions[i].listing_id # NULL
         /\ transactions[i].listing_id = transactions[j].listing_id )
         => transactions[i].buyer_id # transactions[j].buyer_id
  /\ \A p \in Pages :
       call[p].pc # "idle"
         => \A k \in DOMAIN OtherBuyers(call[p]) :
              OtherBuyers(call[p])[k].buyer_id # call[p].buyer.buyer_id

\* C30: no offer has its buyer equal to its seller.
C30_BuyerIsNotSeller ==
  \A i \in DOMAIN transactions : transactions[i].buyer_id # transactions[i].seller_id

====
